---- MODULE Spec2Model ----
(***************************************************************************)
(* A model of swanlab/database/experiment.py: the per-experiment tag       *)
(* recorder (ExperimentTable.add / update_tag_num / success / fail) and    *)
(* the experiment naming helpers (make_experiment_name_unique).            *)
(*                                                                         *)
(* Python's None is the empty tuple <<>> and a present value v is <<v>>,   *)
(* so that "x is None" is x = <<>>.                                        *)
(***************************************************************************)
EXTENDS Integers, Sequences, FiniteSets, TLC

\* ------------------------------------------------------------------ bounds
\* MaxVal: values are 0 .. MaxVal; MaxStep: explicit steps are 1 .. MaxStep;
\* MaxNum: adds that get past the error check, over all tags; MaxTime: clock
\* ticks; MaxLen: length of a wanted name; MaxExists: existing experiments;
\* MaxDepth: nested calls the interpreter allows before RecursionError.
MaxVal == 1
MaxStep == 2
MaxNum == 2
MaxTime == 1
MaxLen == 1
MaxExists == 2
MaxDepth == 4

None == <<>>
Some(v) == <<v>>
Opt(S) == {None} \cup {Some(v) : v \in S}

\* Tag names are strings, modelled as tuples of characters; the second one
\* holds a character that quote(tag, safe="") must encode.
Tags == {<<"l">>, <<"a", "/", "b">>}
Values == 0 .. MaxVal
Steps == 1 .. MaxStep
Range(s) == {s[i] : i \in 1 .. Len(s)}

\* ---------------------------------------------------------------- sample data
\* The data argument of add: an int/float scalar, a BaseType payload whose
\* get_data() yields val and whose tag field may already be set, or a value
\* of another type that the chart cannot convert (kind "other").
\* tag and step are the payload's fields of these names (None on a scalar);
\* a payload that was logged before arrives with both already set.
Data ==
    [kind : {"scalar"}, val : Values, tag : {None}, step : {None}]
        \cup [kind : {"base"}, val : Values, tag : {None}, step : {None}]
        \cup [kind : {"base"}, val : Values, tag : {Some(<<"l">>)}, step : {Some(1)}]
        \cup [kind : {"other"}, val : {0}, tag : {None}, step : {None}]

isinstance_BaseType(data) == data.kind = "base"

\* data.get_data() if isinstance(data, BaseType) else data   (line 141)
get_data(data) == data

\* ------------------------------------------------------------------ state
VARIABLES
    tags,           \* self.tags: tag -> {"num", "max", "min", "indexs"}
    status,         \* self.status
    update_time,    \* self.update_time
    now,            \* the clock read by create_time()
    chart_error,    \* the chart table's per-tag error mark
    saved,          \* the records handed to save_tag
    calls,          \* per tag, the index of every add that reached line 132
    last,           \* the call that ran last and what it saw and returned
    exists_name,    \* names of the experiments that exist
    named,          \* the last make_experiment_name_unique call
    generated,      \* the last generate_random_tree_name call
    threads         \* the add calls that run concurrently

vars == <<tags, status, update_time, now, chart_error, saved, calls, last,
          exists_name, named, generated, threads>>

recorderVars == <<tags, status, update_time, now, chart_error, saved, calls, last>>
nameVars == <<exists_name, named, generated>>

\* self.tags[tag] = {"num": 0, "max": None, "min": None, "indexs": []}
NewTag == [num |-> 0, max |-> None, min |-> None, indexs |-> <<>>]

is_tag_exist(tg, tag) == tag \in DOMAIN tg

\* A thread that runs add concurrently: where it is in add and its locals.
Threads == {1, 2}

Idle ==
    [pc |-> "idle", tag |-> None, step |-> None, val |-> 0, own |-> None, num |-> 0,
     tag_num |-> 0, index |-> 0, outcome |-> "none"]

NoCall ==
    [op |-> "init", tag |-> None, step |-> None, pre |-> None, errored |-> FALSE,
     index |-> None, outcome |-> "none", handed |-> {}, payload |-> None,
     pre_status |-> 0, at |-> 0]


\* -------------------------------------------------------------- chart table
\* ChartTable is the chart collaborator: add registers a tag with its first
\* data, is_chart_error reports the tag's error mark, and try_convert_data
\* returns the converted value or raises.  What the chart decides is an
\* input: reg says whether registration marks the tag as error, conv is the
\* verdict of the conversion.
Conv == {"ok", "raise", "raise_mark"}

chart_add(ce, tag, data, reg) == [ce EXCEPT ![tag] = reg]

is_chart_error(ce, tag) == ce[tag]

\* <<v>> when the chart returns v, None when it raises
try_convert_data(data, tag, conv) ==
    IF conv = "ok" /\ data.kind # "other" THEN Some(data.val) ELSE None

chart_after_convert(ce, tag, data, conv) ==
    IF conv = "raise_mark" THEN [ce EXCEPT ![tag] = TRUE] ELSE ce

\* ----------------------------------------------------------- urllib quote
\* quote(tag, safe=""): letters, digits and "_.-~" stay, every other
\* character becomes %XX ("/" is %2F); the letters are those of Tags.
Unreserved == {"l", "a", "b", "_", ".", "-", "~"}

quote_char(c) == IF c \in Unreserved THEN <<c>> ELSE <<"%", "2", "F">>

RECURSIVE quote(_)
quote(s) == IF s = <<>> THEN <<>> ELSE quote_char(Head(s)) \o quote(Tail(s))

\* ------------------------------------------------------------ add's steps
register_tag_only(tg, tag) ==
    IF is_tag_exist(tg, tag) THEN tg ELSE [t \in {tag} |-> NewTag]

\* lines 117-119: the first add of a tag creates its entry
register_tag(tg, tag) ==
    IF is_tag_exist(tg, tag) THEN tg
    ELSE [t \in DOMAIN tg \cup {tag} |-> IF t = tag THEN NewTag ELSE tg[t]]

\* lines 121-123: a BaseType payload is stamped before chart.add
stamp_first(data, tag, step) ==
    IF isinstance_BaseType(data)
    THEN [data EXCEPT !.tag = Some(tag),
                      !.step = IF step = None THEN Some(1) ELSE step]
    ELSE data

ignore_add_never(ce, tag) == FALSE

\* lines 125-126: if self.__chart.is_chart_error(tag): return
ignore_add(ce, tag) == is_chart_error(ce, tag)

update_tag_num_stuck(tg, tag) == tg

\* lines 153-155
update_tag_num(tg, tag) == [tg EXCEPT ![tag].num = @ + 1]

\* line 132: index = tag_num if step is None else step
index_of(tag_num, step) == IF step = None THEN tag_num ELSE step[1]

step_exists_never(summary, index) == FALSE

\* line 134: index in summary["indexs"]
step_exists(summary, index) == index \in Range(summary.indexs)

\* lines 138-140: an unstamped payload gets the tag and the index
stamp_index(data, tag, index) ==
    IF isinstance_BaseType(data) /\ data.tag = None
    THEN [data EXCEPT !.tag = Some(tag), !.step = Some(index)]
    ELSE data

Max2(a, b) == IF b > a THEN b ELSE a
Min2(a, b) == IF b < a THEN b ELSE a

new_max_overwrite(old, data) == Some(data)

\* line 144
new_max(old, data) == IF old = None THEN Some(data) ELSE Some(Max2(old[1], data))

new_min_inverted(old, data) == IF old # None THEN Some(data) ELSE None

\* line 145
new_min(old, data) == IF old = None THEN Some(data) ELSE Some(Min2(old[1], data))

save_record_swapped(tag, data, index, tag_num, summary) ==
    [tag |-> quote(tag), data |-> data, index |-> index, tag_num |-> tag_num,
     summary |-> [num |-> summary.num, max |-> summary.min, min |-> summary.max]]

record_index_once(indexs, index) ==
    IF index \in Range(indexs) THEN indexs ELSE Append(indexs, index)

\* line 146: summary["indexs"].append(index)
record_index(indexs, index) == Append(indexs, index)

\* line 148 and 151: the record handed to save_tag(tag, data, index, tag_num, summary)
save_record(tag, data, index, tag_num, summary) ==
    [tag |-> quote(tag), data |-> data, index |-> index, tag_num |-> tag_num,
     summary |-> [num |-> summary.num, max |-> summary.max, min |-> summary.min]]

\* ------------------------------------------------------------------ actions
Init ==
    /\ tags = <<>>
    /\ status = 0
    /\ update_time = 0
    /\ now = 0
    /\ chart_error = [t \in Tags |-> FALSE]
    /\ saved = {}
    /\ calls = [t \in Tags |-> <<>>]
    /\ last = NoCall
    /\ exists_name = {}
    /\ named = None
    /\ generated = None
    /\ threads = [th \in Threads |-> Idle]

\* The chart's verdicts are asked only where add calls the chart.
RegChoices(existed) == IF existed THEN {FALSE} ELSE BOOLEAN

\* the calls made so far that got past the error check (the num of all tags)
RECURSIVE SumNum(_, _)
SumNum(tg, S) ==
    IF S = {} THEN 0
    ELSE LET t == CHOOSE x \in S : TRUE
         IN tg[t].num + SumNum(tg, S \ {t})

Passed == SumNum(tags, DOMAIN tags)

\* ExperimentTable.add(tag, data, step)
Add(tag, data, step) ==
    LET existed == is_tag_exist(tags, tag)
        tags1 == register_tag(tags, tag)
        data1 == IF existed THEN data ELSE stamp_first(data, tag, step)
    IN  /\ UNCHANGED <<status, update_time, now, nameVars, threads>>
        /\ \E reg \in RegChoices(existed) :
           LET ce1 == IF existed THEN chart_error
                      ELSE chart_add(chart_error, tag, data1, reg)
               call == [NoCall EXCEPT !.op = "add", !.tag = Some(tag), !.step = step,
                                      !.pre = IF existed THEN Some(tags[tag]) ELSE None,
                                      !.errored = is_chart_error(ce1, tag),
                                      !.pre_status = status]
           IN IF ignore_add(ce1, tag)
              THEN \* line 126: warning, return
                   /\ tags' = tags1
                   /\ chart_error' = ce1
                   /\ UNCHANGED <<saved, calls>>
                   /\ last' = [call EXCEPT !.outcome = "ignored",
                                           !.payload = <<data1.tag, data1.step>>]
              ELSE LET tags2 == update_tag_num(tags1, tag)
                       tag_num == tags2[tag].num
                       index == index_of(tag_num, step)
                       summary == tags2[tag]
                       call2 == [call EXCEPT !.index = Some(index)]
                   IN  /\ Passed < MaxNum
                       /\ calls' = [calls EXCEPT ![tag] = Append(@, index)]
                       /\ IF step_exists(summary, index)
                          THEN \* lines 135-136: warning, return
                               /\ tags' = tags2
                               /\ chart_error' = ce1
                               /\ UNCHANGED saved
                               /\ last' = [call2 EXCEPT !.outcome = "duplicate",
                                              !.payload = <<data1.tag, data1.step>>]
                          ELSE \E conv \in Conv :
                               LET data2 == stamp_index(data1, tag, index)
                                   conv_data == try_convert_data(get_data(data2), tag, conv)
                                   call3 == [call2 EXCEPT
                                               !.payload = <<data2.tag, data2.step>>]
                               IN IF conv_data = None
                                  THEN \* line 142 raises
                                       /\ tags' = tags2
                                       /\ chart_error' =
                                              chart_after_convert(ce1, tag, data2, conv)
                                       /\ UNCHANGED saved
                                       /\ last' = [call3 EXCEPT !.outcome = "raised"]
                                  ELSE LET v == conv_data[1]
                                           summary2 == [summary EXCEPT
                                                !.max = new_max(summary.max, v),
                                                !.min = new_min(summary.min, v),
                                                !.indexs = record_index(@, index)]
                                           rec == save_record(tag, v, index, tag_num,
                                                              summary2)
                                       IN  /\ tags' = [tags2 EXCEPT ![tag] = summary2]
                                           /\ chart_error' = ce1
                                           /\ saved' = saved \cup {rec}
                                           /\ last' = [call3 EXCEPT
                                                         !.outcome = "accepted",
                                                         !.handed = {rec}]

AddCall ==
    \E tag \in Tags, data \in Data, step \in Opt(Steps) : Add(tag, data, step)

\* ExperimentTable.success()
Success ==
    /\ update_time' = now
    /\ status' = 1
    /\ last' = [NoCall EXCEPT !.op = "success", !.pre_status = status, !.at = now]
    /\ UNCHANGED <<tags, now, chart_error, saved, calls, nameVars, threads>>

FailSetsSuccess ==
    /\ update_time' = now
    /\ status' = 1
    /\ last' = [NoCall EXCEPT !.op = "fail", !.pre_status = status, !.at = now]
    /\ UNCHANGED <<tags, now, chart_error, saved, calls, nameVars, threads>>

\* ExperimentTable.fail()
Fail ==
    /\ update_time' = now
    /\ status' = 0 - 1
    /\ last' = [NoCall EXCEPT !.op = "fail", !.pre_status = status, !.at = now]
    /\ UNCHANGED <<tags, now, chart_error, saved, calls, nameVars, threads>>

\* time passes between calls
Tick ==
    /\ now < MaxTime
    /\ now' = now + 1
    /\ UNCHANGED <<tags, status, update_time, chart_error, saved, calls, last, nameVars, threads>>

\* ------------------------------------------------------- concurrent adds
\* Two threads call add(RaceTag, val, step) with no lock; a thread can be
\* switched between any two statements of add, and within update_tag_num
\* between the read and the write of num.  own is None while the thread's
\* summary is the dict in self.tags, and the dict itself once another
\* thread has put a new dict in its place at line 119.
RaceTag == <<"l">>

Th(th) == threads[th]

ThSummary(th) == IF Th(th).own = None THEN tags[RaceTag] ELSE Th(th).own[1]

Go(th, r) == threads' = [threads EXCEPT ![th] = r]

RaceFrame == UNCHANGED <<status, update_time, now, calls, last, nameVars>>

\* summary[...] = ... on the thread's summary dict
WriteSummary(th, d, r) ==
    IF Th(th).own = None
    THEN tags' = [tags EXCEPT ![RaceTag] = d] /\ Go(th, r)
    ELSE UNCHANGED tags /\ Go(th, [r EXCEPT !.own = Some(d)])

T_Call(th) ==
    /\ Th(th).pc = "idle"
    /\ \E val \in Values, step \in Opt(Steps) :
          Go(th, [Idle EXCEPT !.pc = "l117", !.tag = Some(RaceTag), !.step = step,
                              !.val = val])
    /\ UNCHANGED <<tags, chart_error, saved>>
    /\ RaceFrame

\* line 117
T_IsTagExist(th) ==
    /\ Th(th).pc = "l117"
    /\ Go(th, [Th(th) EXCEPT !.pc = IF is_tag_exist(tags, RaceTag) THEN "l125" ELSE "l119"])
    /\ UNCHANGED <<tags, chart_error, saved>>
    /\ RaceFrame

\* lines 119-124: a new dict is put under the tag; a thread that holds the
\* dict that was there keeps it
T_NewTag(th) ==
    /\ Th(th).pc = "l119"
    /\ tags' = [t \in DOMAIN tags \cup {RaceTag} |-> IF t = RaceTag THEN NewTag ELSE tags[t]]
    /\ threads' = [o \in Threads |->
          IF o = th THEN [Th(th) EXCEPT !.pc = "l125"]
          ELSE IF /\ \/ Th(o).pc \in {"l131", "l154", "l155", "l134", "l142",
                                      "l144", "l145", "l146", "l148"}
                     \/ Th(o).pc = "done" /\ Th(o).outcome # "ignored"
                  /\ Th(o).own = None
               THEN [Th(o) EXCEPT !.own = Some(tags[RaceTag])]
               ELSE Th(o)]
    /\ \E reg \in BOOLEAN :
          chart_error' = chart_add(chart_error, RaceTag,
                                   [kind |-> "scalar", val |-> Th(th).val,
                                    tag |-> None, step |-> None], reg)
    /\ UNCHANGED saved
    /\ RaceFrame

\* lines 125-126
T_IsChartError(th) ==
    /\ Th(th).pc = "l125"
    /\ IF ignore_add(chart_error, RaceTag)
       THEN Go(th, [Th(th) EXCEPT !.pc = "done", !.outcome = "ignored"])
       ELSE Go(th, [Th(th) EXCEPT !.pc = "l129"])
    /\ UNCHANGED <<tags, chart_error, saved>>
    /\ RaceFrame

\* line 129: summary = self.tags[tag]
T_Summary(th) ==
    /\ Th(th).pc = "l129"
    /\ Go(th, [Th(th) EXCEPT !.pc = "l131", !.own = None])
    /\ UNCHANGED <<tags, chart_error, saved>>
    /\ RaceFrame

\* line 154, the read of self.tags[tag]["num"]
T_ReadNum(th) ==
    /\ Th(th).pc = "l131"
    /\ Go(th, [Th(th) EXCEPT !.pc = "l154", !.num = tags[RaceTag].num])
    /\ UNCHANGED <<tags, chart_error, saved>>
    /\ RaceFrame

\* line 154, the write of self.tags[tag]["num"]
T_WriteNum(th) ==
    /\ Th(th).pc = "l154"
    /\ tags' = [tags EXCEPT ![RaceTag].num = Th(th).num + 1]
    /\ Go(th, [Th(th) EXCEPT !.pc = "l155"])
    /\ UNCHANGED <<chart_error, saved>>
    /\ RaceFrame

\* lines 155 and 132
T_Index(th) ==
    /\ Th(th).pc = "l155"
    /\ Go(th, [Th(th) EXCEPT !.pc = "l134", !.tag_num = tags[RaceTag].num,
                              !.index = index_of(tags[RaceTag].num, Th(th).step)])
    /\ UNCHANGED <<tags, chart_error, saved>>
    /\ RaceFrame

\* lines 134-136
T_StepExists(th) ==
    /\ Th(th).pc = "l134"
    /\ IF step_exists(ThSummary(th), Th(th).index)
       THEN Go(th, [Th(th) EXCEPT !.pc = "done", !.outcome = "duplicate"])
       ELSE Go(th, [Th(th) EXCEPT !.pc = "l142"])
    /\ UNCHANGED <<tags, chart_error, saved>>
    /\ RaceFrame

\* lines 141-142
T_Convert(th) ==
    /\ Th(th).pc = "l142"
    /\ \E conv \in Conv :
          LET data == [kind |-> "scalar", val |-> Th(th).val, tag |-> None, step |-> None]
          IN IF try_convert_data(get_data(data), RaceTag, conv) = None
             THEN /\ Go(th, [Th(th) EXCEPT !.pc = "done", !.outcome = "raised"])
                  /\ chart_error' = chart_after_convert(chart_error, RaceTag, data, conv)
             ELSE /\ Go(th, [Th(th) EXCEPT !.pc = "l144"])
                  /\ UNCHANGED chart_error
    /\ UNCHANGED <<tags, saved>>
    /\ RaceFrame

\* line 144
T_Max(th) ==
    /\ Th(th).pc = "l144"
    /\ WriteSummary(th, [ThSummary(th) EXCEPT !.max = new_max(@, Th(th).val)],
                    [Th(th) EXCEPT !.pc = "l145"])
    /\ UNCHANGED <<chart_error, saved>>
    /\ RaceFrame

\* line 145
T_Min(th) ==
    /\ Th(th).pc = "l145"
    /\ WriteSummary(th, [ThSummary(th) EXCEPT !.min = new_min(@, Th(th).val)],
                    [Th(th) EXCEPT !.pc = "l146"])
    /\ UNCHANGED <<chart_error, saved>>
    /\ RaceFrame

\* line 146
T_Append(th) ==
    /\ Th(th).pc = "l146"
    /\ WriteSummary(th, [ThSummary(th) EXCEPT !.indexs = record_index(@, Th(th).index)],
                    [Th(th) EXCEPT !.pc = "l148"])
    /\ UNCHANGED <<chart_error, saved>>
    /\ RaceFrame

\* lines 148-151
T_Save(th) ==
    /\ Th(th).pc = "l148"
    /\ saved' = saved \cup {save_record(RaceTag, Th(th).val, Th(th).index,
                                         Th(th).tag_num, ThSummary(th))}
    /\ Go(th, [Th(th) EXCEPT !.pc = "done", !.outcome = "accepted"])
    /\ UNCHANGED <<tags, chart_error>>
    /\ RaceFrame

ThreadStep(th) ==
    \/ T_Call(th) \/ T_IsTagExist(th) \/ T_NewTag(th) \/ T_IsChartError(th)
    \/ T_Summary(th) \/ T_ReadNum(th) \/ T_WriteNum(th) \/ T_Index(th)
    \/ T_StepExists(th) \/ T_Convert(th) \/ T_Max(th) \/ T_Min(th)
    \/ T_Append(th) \/ T_Save(th)

\* --------------------------------------------------------- str operations
\* An experiment name is a str, modelled as a tuple of characters.  "sup2" is
\* the character SUPERSCRIPT TWO: str.isdigit() holds of it and int() raises
\* ValueError on it.
DecimalChars == {"0", "1", "2", "3", "4", "5", "6", "7", "8", "9"}
DigitChars == DecimalChars \cup {"sup2"}
NameChars == {"a", "-", "0", "9", "sup2"}

\* name.split("-")
RECURSIVE split(_)
split(s) ==
    IF s = <<>> THEN << <<>> >>
    ELSE LET rest == split(Tail(s))
         IN IF Head(s) = "-" THEN << <<>> >> \o rest
            ELSE << <<Head(s)>> \o Head(rest) >> \o Tail(rest)

\* "-".join(name_arr)
RECURSIVE join(_)
join(arr) ==
    IF Len(arr) = 0 THEN <<>>
    ELSE IF Len(arr) = 1 THEN arr[1]
    ELSE arr[1] \o <<"-">> \o join(Tail(arr))

\* str.isdigit(): non-empty and every character is a digit character
isdigit(s) == s # <<>> /\ \A i \in 1 .. Len(s) : s[i] \in DigitChars

DigitValue(c) ==
    CASE c = "0" -> 0 [] c = "1" -> 1 [] c = "2" -> 2 [] c = "3" -> 3 [] c = "4" -> 4
      [] c = "5" -> 5 [] c = "6" -> 6 [] c = "7" -> 7 [] c = "8" -> 8 [] c = "9" -> 9

DigitChar(d) ==
    CASE d = 0 -> "0" [] d = 1 -> "1" [] d = 2 -> "2" [] d = 3 -> "3" [] d = 4 -> "4"
      [] d = 5 -> "5" [] d = 6 -> "6" [] d = 7 -> "7" [] d = 8 -> "8" [] d = 9 -> "9"

\* int(s) of a digit string accepts the decimal digits only
int_ok(s) == \A i \in 1 .. Len(s) : s[i] \in DecimalChars

RECURSIVE int(_)
int(s) ==
    IF s = <<>> THEN 0
    ELSE 10 * int(SubSeq(s, 1, Len(s) - 1)) + DigitValue(s[Len(s)])

\* str(n) for n >= 0
RECURSIVE str(_)
str(n) == IF n < 10 THEN <<DigitChar(n)>> ELSE str(n \div 10) \o <<DigitChar(n % 10)>>

\* ------------------------------------------- make_experiment_name_unique
new_name_no_increment(name) ==
    LET name_arr == split(name)
        tail == name_arr[Len(name_arr)]
    IN IF isdigit(tail)
       THEN IF int_ok(tail)
            THEN Some(join([name_arr EXCEPT ![Len(name_arr)] = str(int(tail))]))
            ELSE None
       ELSE Some(join(Append(name_arr, <<"1">>)))

\* lines 239-247: the name tried after a name that exists; None when
\* int(name_arr[-1]) raises ValueError
new_name(name) ==
    LET name_arr == split(name)
        tail == name_arr[Len(name_arr)]
    IN IF isdigit(tail)
       THEN IF int_ok(tail)
            THEN Some(join([name_arr EXCEPT ![Len(name_arr)] = str(int(tail) + 1)]))
            ELSE None
       ELSE Some(join(Append(name_arr, <<"1">>)))

\* tried holds the names found to exist so far in this call, one per
\* recursive call made.  The result is [ok, name, depth, tried, raised]: ok
\* says that the call returned, name is the returned name (or the one on
\* which it raised), depth the number of recursive calls made, raised the
\* exception ("" when it returned).
RECURSIVE unique_from(_, _, _)
unique_from(name, exists, tried) ==
    IF name \in exists
    THEN LET nn == new_name(name)
         IN IF nn = None
            THEN [ok |-> FALSE, name |-> name, depth |-> Len(tried),
                  tried |-> tried, raised |-> "ValueError"]
            ELSE IF Len(tried) >= MaxDepth
            THEN [ok |-> FALSE, name |-> name, depth |-> Len(tried),
                  tried |-> tried, raised |-> "RecursionError"]
            ELSE unique_from(nn[1], exists, Append(tried, name))
    ELSE [ok |-> TRUE, name |-> name, depth |-> Len(tried), tried |-> tried,
          raised |-> ""]

make_unique_once(name, exists) ==
    IF name \in exists
    THEN LET nn == new_name(name)
         IN IF nn = None
            THEN [ok |-> FALSE, name |-> name, depth |-> 0, tried |-> <<>>,
                  raised |-> "ValueError"]
            ELSE [ok |-> TRUE, name |-> nn[1], depth |-> 1, tried |-> <<name>>,
                  raised |-> ""]
    ELSE [ok |-> TRUE, name |-> name, depth |-> 0, tried |-> <<>>, raised |-> ""]

make_experiment_name_unique(name, exists) == unique_from(name, exists, <<>>)

\* --------------------------------------------------------------- naming
Names == UNION {[1 .. n -> NameChars] : n \in 0 .. MaxLen}

\* An experiment is created under the name make_experiment_name_unique
\* returns for the wanted name and the names of the experiments that exist.
CreateExperiment(name) ==
    LET r == make_experiment_name_unique(name, exists_name)
    IN  /\ named' = Some([name |-> name, exists |-> exists_name, ok |-> r.ok,
                          result |-> r.name, depth |-> r.depth,
                          tried |-> r.tried, raised |-> r.raised])
        /\ exists_name' = IF r.ok /\ Cardinality(exists_name) < MaxExists
                          THEN exists_name \cup {r.name} ELSE exists_name
        /\ UNCHANGED <<recorderVars, generated, threads>>

Create == \E name \in Names \cup exists_name : CreateExperiment(name)

\* ------------------------------------------- generate_random_tree_name
tree_names ==
    {<<"o", "a", "k">>,
     <<"m", "a", "p", "l", "e">>,
     <<"p", "i", "n", "e">>,
     <<"b", "e", "e", "c", "h">>,
     <<"w", "i", "l", "l", "o", "w">>,
     <<"b", "i", "r", "c", "h">>,
     <<"s", "p", "r", "u", "c", "e">>,
     <<"c", "y", "p", "r", "e", "s", "s">>,
     <<"c", "e", "d", "a", "r">>,
     <<"h", "e", "m", "l", "o", "c", "k">>,
     <<"p", "o", "p", "l", "a", "r">>,
     <<"r", "e", "d", "w", "o", "o", "d">>}

positive_adjectives ==
    {<<"l", "u", "s", "h">>,
     <<"m", "a", "j", "e", "s", "t", "i", "c">>,
     <<"v", "i", "b", "r", "a", "n", "t">>,
     <<"v", "e", "r", "d", "a", "n", "t">>,
     <<"b", "e", "a", "u", "t", "i", "f", "u", "l">>,
     <<"s", "t", "u", "r", "d", "y">>,
     <<"a", "b", "u", "n", "d", "a", "n", "t">>,
     <<"t", "a", "l", "l">>,
     <<"s", "h", "a", "d", "y">>,
     <<"h", "a", "r", "d", "y">>}

generate_len_suffix(exists, tree_name, adjective) ==
    adjective \o <<"-">> \o tree_name \o <<"-">> \o str(Cardinality(exists))

\* lines 213-218, for the words random.choice picked:
\* f"{adjective}-{tree_name}-{exists_name.__len__() + 1}"
generate_random_tree_name(exists, tree_name, adjective) ==
    adjective \o <<"-">> \o tree_name \o <<"-">> \o str(Cardinality(exists) + 1)

Generate ==
    /\ \E tree_name \in tree_names, adjective \in positive_adjectives :
          generated' = Some([exists |-> exists_name,
                             name |-> generate_random_tree_name(exists_name, tree_name,
                                                                adjective)])
    /\ UNCHANGED <<recorderVars, exists_name, named, threads>>

\* ------------------------------------------------------- specifications
\* the recorder under add calls
Next == AddCall

Spec == Init /\ [][Next]_vars

\* the run's life cycle: success, fail and the clock, with adds of the scalar 0
RunData == {d \in Data : d.kind = "scalar" /\ d.val = 0}

AddScalar ==
    \E tag \in Tags, data \in RunData, step \in Opt(Steps) : Add(tag, data, step)

NextRun == AddScalar \/ Success \/ Fail \/ Tick

SpecRun == Init /\ [][NextRun]_vars

\* the recorder when every add of the tag AutoTag omits the step, whatever
\* the adds of the other tag do
AutoTag == <<"l">>

AddAuto == \E data \in Data : Add(AutoTag, data, None)

AddOther ==
    \E tag \in Tags \ {AutoTag}, data \in Data, step \in Opt(Steps) : Add(tag, data, step)

NextAuto == AddAuto \/ AddOther

SpecAuto == Init /\ [][NextAuto]_vars

\* two add calls of one tag run concurrently
NextRace == \E th \in Threads : ThreadStep(th)

SpecRace == Init /\ [][NextRace]_vars

\* the naming of experiments
NextName == Create

SpecName == Init /\ [][NextName]_vars

\* the generation of names while experiments are created under one wanted name
WantedName == <<"a">>

NextGen == CreateExperiment(WantedName) \/ Generate

SpecGen == Init /\ [][NextGen]_vars

\* ------------------------------------------------------------------ claims
NoRepeat(s) == \A i, j \in 1 .. Len(s) : s[i] = s[j] => i = j

LastTag == last.tag[1]
LastPre == last.pre[1]
LastAddOnExisting == last.op = "add" /\ last.pre # None

SetMax(S) == CHOOSE x \in S : \A y \in S : y <= x
SetMin(S) == CHOOSE x \in S : \A y \in S : x <= y

\* the values of the records handed to save_tag for a tag
AcceptedValues(t) == {r.data : r \in {x \in saved : x.tag = quote(t)}}

\* C1: a step index is accepted at most once per tag: no tag's indexs list
\* holds an index twice, and no two records handed to save_tag have the same
\* tag and index.
C1_StepAcceptedOnce ==
    /\ \A t \in DOMAIN tags : NoRepeat(tags[t].indexs)
    /\ \A r1, r2 \in saved : (r1.tag = r2.tag /\ r1.index = r2.index) => r1 = r2

\* a step was submitted again after it had been accepted
C1_Witness ==
    /\ LastAddOnExisting
    /\ last.outcome = "duplicate"
    /\ last.index[1] \in Range(tags[LastTag].indexs)
    /\ \E r \in saved : r.tag = quote(LastTag) /\ r.index = last.index[1]

\* C2: an add whose step index is already recorded for the tag changes none
\* of the tag's num, max and min and hands nothing to save_tag.
C2_DuplicateChangesNothing ==
    (/\ LastAddOnExisting
     /\ ~last.errored
     /\ last.index # None
     /\ last.index[1] \in Range(LastPre.indexs))
    => /\ tags[LastTag].num = LastPre.num
       /\ tags[LastTag].max = LastPre.max
       /\ tags[LastTag].min = LastPre.min
       /\ last.handed = {}

\* C3: a tag's max is the maximum and its min the minimum of the values
\* accepted for it so far.
C3_MaxMinOfAccepted ==
    \A t \in DOMAIN tags :
        AcceptedValues(t) # {} =>
            /\ tags[t].max = Some(SetMax(AcceptedValues(t)))
            /\ tags[t].min = Some(SetMin(AcceptedValues(t)))

\* an add was accepted whose value is below the tag's max
C3_Witness ==
    /\ LastAddOnExisting
    /\ last.outcome = "accepted"
    /\ \E r \in last.handed : r.data < tags[LastTag].max[1] /\ r.data = tags[LastTag].min[1]

\* C4: when the adds of a tag that got past the error check had pairwise
\* distinct step indices, the tag's num is the number of recorded steps.
C4_CountIsAccepted ==
    \A t \in DOMAIN tags : NoRepeat(calls[t]) => tags[t].num = Len(tags[t].indexs)

\* C5: an add on an existing tag whose value the chart's conversion rejects
\* leaves the tag's num, max, min and indexs as they were.
C5_RejectedChangesNothing ==
    (LastAddOnExisting /\ last.outcome = "raised") => tags[LastTag] = LastPre

\* C6: an add on an existing tag that the chart reports as error leaves the
\* tag's entry as it was and hands nothing to save_tag.
C6_ErroredChangesNothing ==
    (LastAddOnExisting /\ last.errored) =>
        /\ tags[LastTag] = LastPre
        /\ last.handed = {}
        /\ \A r \in saved : r.tag = quote(LastTag) => r.tag_num <= LastPre.num

\* a tag with accepted samples was marked as error and then added to
C6_Witness ==
    /\ LastAddOnExisting
    /\ last.errored
    /\ last.outcome = "ignored"
    /\ LastPre.indexs # <<>>

\* C7: once status is 1 or -1, no later call changes it.
C7_TerminalStatusKept == last.pre_status # 0 => status = last.pre_status

\* C8: a run starts with status 0; success() on a running run leaves status 1
\* and fail() leaves status -1, and each stamps update_time with the time of
\* the call.
C8_SuccessFailSetStatus ==
    /\ last.op = "init" => status = 0
    /\ (last.op = "success" /\ last.pre_status = 0) =>
            status = 1 /\ update_time = last.at
    /\ (last.op = "fail" /\ last.pre_status = 0) =>
            status = 0 - 1 /\ update_time = last.at

\* fail() was called on a running run after the clock had moved
C8_Witness == last.op = "fail" /\ last.pre_status = 0 /\ last.at > 0 /\ status = 0 - 1

\* C9: the name make_experiment_name_unique returns is not one of the
\* existing names.
C9_ResultNotExisting ==
    (named # None /\ named[1].ok) => named[1].result \notin named[1].exists

\* a call that returned after two recursive calls
C9_Witness ==
    /\ named # None
    /\ named[1].ok
    /\ named[1].depth = 2
    /\ named[1].name \in named[1].exists

\* the claim's successor of a name: the final segment is incremented when it
\* is a non-negative integer, otherwise the segment "1" is appended
IsNonNegativeInteger(seg) == seg # <<>> /\ \A i \in 1 .. Len(seg) : seg[i] \in DecimalChars

ClaimedNext(name) ==
    LET arr == split(name)
        tail == arr[Len(arr)]
    IN IF IsNonNegativeInteger(tail)
       THEN join([arr EXCEPT ![Len(arr)] = str(int(tail) + 1)])
       ELSE join(Append(arr, <<"1">>))

RECURSIVE ClaimedFirst(_, _)
ClaimedFirst(name, exists) ==
    IF name \notin exists THEN name ELSE ClaimedFirst(ClaimedNext(name), exists)

\* C10: make_experiment_name_unique returns the first name of name,
\* next(name), next(next(name)), ... that is not an existing name.
C10_ReturnsFirstFree ==
    named # None =>
        /\ named[1].ok
        /\ named[1].result = ClaimedFirst(named[1].name, named[1].exists)

\* C11: make_experiment_name_unique ends after at most as many recursive
\* calls as there are existing names, and the names it generates within one
\* call are pairwise distinct.
C11_AtMostExistingSteps ==
    named # None =>
        /\ named[1].depth <= Cardinality(named[1].exists)
        /\ named[1].raised # "RecursionError"
        /\ NoRepeat(Append(named[1].tried, named[1].result))
        /\ Range(named[1].tried) \subseteq named[1].exists

\* a call that needed as many recursive calls as there are existing names
C11_Witness ==
    /\ named # None
    /\ named[1].ok
    /\ named[1].depth = 2
    /\ Cardinality(named[1].exists) = 2

\* the number of samples accepted for the tag before the last call
AcceptedBefore == IF last.pre = None THEN 0 ELSE Len(LastPre.indexs)

\* C12: an add without a step gets the index accepted-so-far + 1, an add
\* with a step gets that step.
C12_IndexAssigned ==
    (last.op = "add" /\ last.index # None) =>
        last.index[1] = IF last.step = None THEN AcceptedBefore + 1 ELSE last.step[1]

\* C13: a tag's max and min are None while its indexs list is empty and
\* are both numbers once a step is recorded.
C13_NullUntilAccepted ==
    \A t \in DOMAIN tags :
        IF tags[t].indexs = <<>>
        THEN tags[t].max = None /\ tags[t].min = None
        ELSE /\ tags[t].max # None /\ tags[t].max[1] \in Int
             /\ tags[t].min # None /\ tags[t].min[1] \in Int

\* the first sample of a tag was accepted after an add that was not
C13_Witness ==
    /\ LastAddOnExisting
    /\ last.outcome = "accepted"
    /\ LastPre.indexs = <<>>
    /\ LastPre.num > 0
    /\ LastPre.max = None
    /\ tags[LastTag].min # None

\* C16: a record handed to save_tag carries the tag's num, max and min as
\* they are right after the sample was applied, its tag_num is the summary's
\* num, and its value lies between the summary's min and max.
C16_RecordCarriesSummary ==
    /\ \A r \in last.handed :
          r.summary = [num |-> tags[LastTag].num, max |-> tags[LastTag].max,
                       min |-> tags[LastTag].min]
    /\ \A r \in saved :
          /\ r.tag_num = r.summary.num
          /\ r.summary.min # None /\ r.summary.max # None
          /\ r.summary.min[1] <= r.data /\ r.data <= r.summary.max[1]

\* a record was handed over whose value is below the max of its summary
C16_Witness ==
    /\ last.outcome = "accepted"
    /\ \E r \in last.handed :
          /\ r.summary.min[1] < r.summary.max[1]
          /\ r.data = r.summary.min[1]
          /\ r.tag_num = 2

\* C17: when every add of a tag omits the step, the indices of its adds that
\* get past the error check are strictly increasing and none of them is
\* rejected as a duplicate step.
C17_AutoNeverDuplicate ==
    /\ \A i, j \in 1 .. Len(calls[AutoTag]) :
          i < j => calls[AutoTag][i] < calls[AutoTag][j]
    /\ (last.op = "add" /\ LastTag = AutoTag) => last.outcome # "duplicate"
    /\ AutoTag \in DOMAIN tags =>
          Range(tags[AutoTag].indexs) \subseteq 1 .. tags[AutoTag].num

\* the tag got index 2 after an add of it that was not accepted
C17_Witness ==
    /\ AutoTag \in DOMAIN tags
    /\ Len(calls[AutoTag]) = 2
    /\ tags[AutoTag].indexs = <<2>>
    /\ last.op = "add" /\ LastTag = AutoTag /\ last.outcome = "accepted"

\* C18: after an add the tag is in tags whatever the outcome; no call
\* removes a tag from tags or lowers a tag's num.
C18_TagsKept ==
    /\ [](last.op = "add" => LastTag \in DOMAIN tags)
    /\ [][/\ DOMAIN tags \subseteq DOMAIN tags'
          /\ \A t \in DOMAIN tags : tags[t].num <= tags'[t].num]_vars

\* an add on a new tag was ignored after the run had ended, a second tag
\* being present
C18_Witness ==
    /\ last.op = "add"
    /\ last.outcome = "ignored"
    /\ last.pre = None
    /\ status # 0
    /\ Cardinality(DOMAIN tags) = 2

\* C19: an add of a recorded step and an add on a tag marked as error
\* return normally and leave status as it was.
C19_AbsorbedLocally ==
    (/\ last.op = "add"
     /\ \/ last.errored
        \/ (last.pre # None /\ last.index # None
              /\ last.index[1] \in Range(LastPre.indexs)))
    => /\ last.outcome \in {"ignored", "duplicate"}
       /\ status = last.pre_status

\* a recorded step was added again while the run was running
C19_Witness ==
    /\ last.op = "add"
    /\ last.outcome = "duplicate"
    /\ last.pre_status = 0
    /\ status = 0

\* C15: generate_random_tree_name returns <adjective>-<tree>-<n> with the
\* adjective and the tree from the two lists and n the number of existing
\* names plus one.
C15_GeneratedForm ==
    generated # None =>
        LET parts == split(generated[1].name)
        IN  /\ Len(parts) = 3
            /\ parts[1] \in positive_adjectives
            /\ parts[2] \in tree_names
            /\ IsNonNegativeInteger(parts[3])
            /\ int(parts[3]) = Cardinality(generated[1].exists) + 1
            /\ generated[1].exists = {} => parts[3] = <<"1">>

\* a name was generated when two experiments existed
C15_Witness ==
    /\ generated # None
    /\ Cardinality(generated[1].exists) = 2
    /\ split(generated[1].name)[3] = <<"3">>

\* how often an index is in a list
Occurrences(indexs, index) == Cardinality({i \in 1 .. Len(indexs) : indexs[i] = index})

\* both threads passed the duplicate check of the tag's dict for one index
\* and ran add to its end
BothAccepted ==
    /\ \A th \in Threads :
          Th(th).pc = "done" /\ Th(th).outcome = "accepted" /\ Th(th).own = None
    /\ Th(1).index = Th(2).index

\* C14: two concurrent adds of one (tag, step) that both pass the duplicate
\* check record the step twice and hand two records to save_tag.
C14_BothPassRecordTwice ==
    BothAccepted =>
        /\ Occurrences(tags[RaceTag].indexs, Th(1).index) = 2
        /\ \A th \in Threads :
              \E r \in saved : /\ r.tag = quote(RaceTag)
                               /\ r.index = Th(th).index
                               /\ r.tag_num = Th(th).tag_num

\* both calls had the same explicit step, the step is recorded twice,
\* counted twice and two records were handed over
C14_Witness ==
    /\ BothAccepted
    /\ Th(1).step # None /\ Th(1).step = Th(2).step
    /\ Occurrences(tags[RaceTag].indexs, Th(1).index) = 2
    /\ tags[RaceTag].num = 2
    /\ Cardinality({r \in saved : r.index = Th(1).index}) = 2

====
